---- MODULE Spec2Model ----
(***************************************************************************)
(* FreeList<Type> (freelist.hpp): a fixed-capacity pool of list_size slots *)
(* of sizeof(Type) bytes each, with a stack of free slot addresses.        *)
(*                                                                         *)
(* Addresses are integers.  Assertions are enabled (NDEBUG not defined): a *)
(* failing assert aborts the program.                                      *)
(*                                                                         *)
(* Spec, SpecHeld, SpecCtor: one pool, one thread, the four operations.    *)
(* SpecLife, SpecMove: construction, move construction and destruction of  *)
(*   FreeList instances over one arena and one address array.              *)
(* SpecMT: the FL_THREAD_SAFETY build, several threads on one pool.        *)
(***************************************************************************)
EXTENDS Integers, Sequences, FiniteSets

VARIABLES
    free_resources_on_destr,  \* bool: TRUE for the owning constructor
    list_size,                \* number of slots
    index_top,                \* number of entries of the free stack
    data,                     \* address of the first byte of the arena
    free_segments,            \* array [0..list_size-1] of addresses (the stack)
    held,                     \* caller: addresses obtained and not yet given back
    live,                     \* addresses at which a Type was constructed and not destructed
    pc,                       \* "idle", "dtor" (inside destructAndMarkAsFree), "aborted"
    cur_ptr,                  \* argument of the destructAndMarkAsFree call in progress
    calls,                    \* the completed calls, oldest first
    \* construction, move and destruction
    inst,                     \* the FreeList instances: [1..MaxInst -> record of members]
    heap,                     \* what became of the arena and of the address array
    recv,                     \* the instances that received the buffers, in order
    last,                     \* the last constructor call and its outcome
    \* FL_THREAD_SAFETY
    thr,                      \* per thread: position, argument, locals, held addresses
    fl_mutex                  \* the thread that owns fl_mutex, or NoThread

lifeVars == <<inst, heap, recv, last>>

mtVars == <<thr, fl_mutex>>

vars == <<free_resources_on_destr, list_size, index_top, data, free_segments,
          held, live, pc, cur_ptr, calls, lifeVars, mtVars>>

\* ------------------------------------------------------------------ bounds
MaxListSize == 3
MaxCalls == 6
MaxInst == 3
MaxLifeSize == 2
MaxThreads == 2

\* largest pool the threads share
MaxMtSize == 2
DataAddr == 8
SizeofType == 2

\* ------------------------------------------------------------- addresses
\* &(data[index * sizeof(Type)])
SlotAddr(d, index) == d + index * SizeofType

Slots(d, n) == {SlotAddr(d, i) : i \in 0 .. n - 1}

\* the entries free_segments[0 .. index_top-1], bottom first
StackOf(segs, top) == [k \in 1 .. top |-> segs[k - 1]]

Range(s) == {s[k] : k \in DOMAIN s}

FreeStack == StackOf(free_segments, index_top)

\* ---------------------------------------------------------------- freeAll
\* for (index_top = 0; index_top < list_size; ++index_top)
\*     free_segments[index_top] = &(data[index-- * sizeof(Type)]);
\* The value index has after the last iteration is never read.
RECURSIVE freeAllLoop(_, _, _, _, _)
freeAllLoop(segs, top, index, n, d) ==
    IF top < n
    THEN freeAllLoop([segs EXCEPT ![top] = SlotAddr(d, index)],
                     top + 1, index - 1, n, d)
    ELSE [segs |-> segs, top |-> top]

freeAllAscending(segs, n, d) ==
    [segs |-> [i \in 0 .. n - 1 |-> SlotAddr(d, i)], top |-> n]

freeAll(segs, n, d) == freeAllLoop(segs, 0, n - 1, n, d)

\* ----------------------------------------------------------- getFreePlace
\* if (index_top == 0) throw std::runtime_error(...);
\* return free_segments[--index_top];
getFreePlaceNull(segs, top) ==
    IF top = 0
    THEN [outcome |-> "returned", top |-> top, ptr |-> 0]
    ELSE [outcome |-> "returned", top |-> top - 1, ptr |-> segs[top - 1]]

getFreePlaceOffByOne(segs, top) ==
    IF top <= 1
    THEN [outcome |-> "runtime_error", top |-> top]
    ELSE [outcome |-> "returned", top |-> top - 1, ptr |-> segs[top - 1]]

getFreePlace(segs, top) ==
    IF top = 0
    THEN [outcome |-> "runtime_error", top |-> top]
    ELSE [outcome |-> "returned", top |-> top - 1, ptr |-> segs[top - 1]]

\* ------------------------------------------------------------- markAsFree
\* assert(ptr >= data);
\* assert(ptr <= data + (list_size - 1) * sizeof(Type));
\* assert(index_top < list_size);
markAsFreeAsserts(ptr, top, n, d) ==
    /\ ptr >= d
    /\ ptr <= d + (n - 1) * SizeofType
    /\ top < n

\* free_segments[index_top++] = ptr;
markAsFreeNoIncrement(segs, top, ptr) ==
    [segs |-> [segs EXCEPT ![top] = ptr], top |-> top]

markAsFreeBottom(segs, top, ptr) ==
    [segs |-> [i \in DOMAIN segs |->
                  IF i = 0 THEN ptr
                  ELSE IF i <= top THEN segs[i - 1] ELSE segs[i]],
     top |-> top + 1]

markAsFreePush(segs, top, ptr) ==
    [segs |-> [segs EXCEPT ![top] = ptr], top |-> top + 1]

\* ------------------------------------------------------------------ state
\* new char *[list_size] holds indeterminate values; a caller's array holds
\* whatever the caller left there.  freeAll overwrites every entry.
Indeterminate(n, d) == {[i \in 0 .. n - 1 |-> g] : g \in {0, d}}

\* no FreeList instance besides the one of the single-pool specifications
NoInst == [state |-> "none"]

LifeUnused ==
    /\ inst = [i \in 1 .. MaxInst |-> NoInst]
    /\ heap = [data |-> "unallocated", free_segments |-> "unallocated", by |-> 0]
    /\ recv = <<>>
    /\ last = [op |-> "none"]

\* no thread besides the caller of the single-threaded specifications
NoThread == 0

Threads == 1 .. MaxThreads

MtUnused ==
    /\ thr = [t \in Threads |-> [pc |-> "idle", held |-> {}]]
    /\ fl_mutex = NoThread

Init ==
    /\ LifeUnused
    /\ MtUnused
    /\ free_resources_on_destr \in BOOLEAN
    /\ list_size \in 1 .. MaxListSize
    /\ data = DataAddr
    /\ \E segs0 \in Indeterminate(list_size, data) :
          LET r == freeAll(segs0, list_size, data)
          IN  /\ free_segments = r.segs
              /\ index_top = r.top
    /\ held = {}
    /\ live = {}
    /\ pc = "idle"
    /\ cur_ptr = 0
    /\ calls = <<>>

CanCall == pc = "idle" /\ Len(calls) < MaxCalls

\* Type *getFreePlace()
GetFreePlace ==
    /\ CanCall
    /\ LET r == getFreePlace(free_segments, index_top)
       IN  /\ index_top' = r.top
           /\ IF r.outcome = "returned"
              THEN /\ held' = held \cup {r.ptr}
                   /\ calls' = Append(calls,
                         [op |-> "getFreePlace", outcome |-> "returned",
                          ptr |-> r.ptr,
                          stk |-> StackOf(free_segments, r.top)])
              ELSE /\ held' = held
                   /\ calls' = Append(calls,
                         [op |-> "getFreePlace", outcome |-> r.outcome,
                          stk |-> StackOf(free_segments, r.top)])
    /\ UNCHANGED <<free_resources_on_destr, list_size, data, free_segments,
                   live, pc, cur_ptr, lifeVars, mtVars>>

\* Type *constructOnFreePlace(Args... args)
\*     return new (getFreePlace()) Type(args...);
ConstructOnFreePlace ==
    /\ CanCall
    /\ LET r == getFreePlace(free_segments, index_top)
       IN  /\ index_top' = r.top
           /\ IF r.outcome = "returned"
              THEN /\ held' = held \cup {r.ptr}
                   /\ live' = live \cup {r.ptr}
                   /\ calls' = Append(calls,
                         [op |-> "constructOnFreePlace", outcome |-> "returned",
                          ptr |-> r.ptr,
                          stk |-> StackOf(free_segments, r.top)])
              ELSE /\ held' = held
                   /\ live' = live
                   /\ calls' = Append(calls,
                         [op |-> "constructOnFreePlace", outcome |-> r.outcome,
                          stk |-> StackOf(free_segments, r.top)])
    /\ UNCHANGED <<free_resources_on_destr, list_size, data, free_segments,
                   pc, cur_ptr, lifeVars, mtVars>>

\* void markAsFree(Type * const ptr)
MarkAsFree(ptr) ==
    /\ CanCall
    /\ IF markAsFreeAsserts(ptr, index_top, list_size, data)
       THEN LET r == markAsFreePush(free_segments, index_top, ptr)
            IN  /\ free_segments' = r.segs
                /\ index_top' = r.top
                /\ held' = held \ {ptr}
                /\ pc' = pc
                /\ calls' = Append(calls,
                      [op |-> "markAsFree", outcome |-> "returned",
                       ptr |-> ptr, stk |-> StackOf(r.segs, r.top)])
       ELSE /\ pc' = "aborted"
            /\ calls' = Append(calls,
                  [op |-> "markAsFree", outcome |-> "assert_failed",
                   ptr |-> ptr, stk |-> FreeStack])
            /\ UNCHANGED <<free_segments, index_top, held>>
    /\ UNCHANGED <<free_resources_on_destr, list_size, data, live, cur_ptr,
                   lifeVars, mtVars>>

\* void destructAndMarkAsFree(Type * const ptr), first statement:
\*     markAsFree(ptr);
DestructAndMarkAsFree(ptr) ==
    /\ CanCall
    /\ IF markAsFreeAsserts(ptr, index_top, list_size, data)
       THEN LET r == markAsFreePush(free_segments, index_top, ptr)
            IN  /\ free_segments' = r.segs
                /\ index_top' = r.top
                /\ held' = held \ {ptr}
                /\ pc' = "dtor"
                /\ cur_ptr' = ptr
                /\ calls' = calls
       ELSE /\ pc' = "aborted"
            /\ calls' = Append(calls,
                  [op |-> "destructAndMarkAsFree", outcome |-> "assert_failed",
                   ptr |-> ptr, stk |-> FreeStack])
            /\ UNCHANGED <<free_segments, index_top, held, cur_ptr>>
    /\ UNCHANGED <<free_resources_on_destr, list_size, data, live,
                   lifeVars, mtVars>>

\* destructAndMarkAsFree, second statement, and the return:
\*     ptr->~Type();
DestructorOfType ==
    /\ pc = "dtor"
    /\ live' = live \ {cur_ptr}
    /\ pc' = "idle"
    /\ calls' = Append(calls,
          [op |-> "destructAndMarkAsFree", outcome |-> "returned",
           ptr |-> cur_ptr, stk |-> FreeStack])
    /\ UNCHANGED <<free_resources_on_destr, list_size, index_top, data,
                   free_segments, held, cur_ptr, lifeVars, mtVars>>

\* what a caller may pass to markAsFree: every byte address from one below
\* the arena to one past its end
PtrInputs == (data - 1) .. (data + list_size * SizeofType)

Next ==
    \/ GetFreePlace
    \/ ConstructOnFreePlace
    \/ \E ptr \in PtrInputs : MarkAsFree(ptr)
    \/ \E ptr \in live : DestructAndMarkAsFree(ptr)
    \/ DestructorOfType

Spec == Init /\ [][Next]_vars

\* callers that release only addresses they hold, and destruct only objects
\* they hold
NextHeld ==
    \/ GetFreePlace
    \/ ConstructOnFreePlace
    \/ \E ptr \in held : MarkAsFree(ptr)
    \/ \E ptr \in held \cap live : DestructAndMarkAsFree(ptr)
    \/ DestructorOfType

SpecHeld == Init /\ [][NextHeld]_vars

TypeOK ==
    /\ index_top \in 0 .. list_size
    /\ pc \in {"idle", "dtor", "aborted"}
    /\ Len(calls) <= MaxCalls

\* ------------------------------------------------- reading the call history
IsAcquire(c) == c.op \in {"getFreePlace", "constructOnFreePlace"}

IsRelease(c) == c.op \in {"markAsFree", "destructAndMarkAsFree"}

Returned(c) == c.outcome = "returned"

\* the first k calls on the pool were all acquires
ColdPrefix(k) == \A j \in 1 .. k : IsAcquire(calls[j])

\* the free stack as the constructor left it
ColdStack ==
    LET r == freeAll(CHOOSE segs0 \in Indeterminate(list_size, data) : TRUE,
                     list_size, data)
    IN  StackOf(r.segs, r.top)

\* the free stack after the first k calls
StackAfter(k) == IF k = 0 THEN ColdStack ELSE calls[k].stk

LastCall == calls[Len(calls)]

\* this step completed a call to getFreePlace or constructOnFreePlace
AcquireStep ==
    /\ Len(calls') = Len(calls) + 1
    /\ IsAcquire(calls'[Len(calls')])

\* calls only grows and every prefix of it is the log of an earlier state,
\* so a property of the k-th call is stated of the call just completed
\* (k = Len(calls)) and holds of every call once it holds in every state.
\* ------------------------------------------------------------------- C1
\* C1: on a freshly constructed pool of capacity list_size (owning or
\* borrowing), the first list_size acquires succeed with pairwise distinct
\* addresses and acquire number list_size + 1 fails with runtime_error.
C1_CapacityBound ==
    \A k \in {Len(calls)} \ {0} :
        ColdPrefix(k) =>
            /\ k <= list_size =>
                   /\ Returned(calls[k])
                   /\ \A j \in 1 .. k - 1 :
                          Returned(calls[j]) /\ calls[j].ptr # calls[k].ptr
            /\ k = list_size + 1 => calls[k].outcome = "runtime_error"

C1_Witness ==
    /\ list_size >= 2
    /\ Len(calls) = list_size + 1
    /\ ColdPrefix(list_size + 1)
    /\ LastCall.outcome = "runtime_error"
    /\ Returned(calls[list_size])

\* ------------------------------------------------------------------- C2
\* C2: when callers release only addresses they hold, a slot is
\* outstanding exactly when its address is not among
\* free_segments[0 .. index_top-1], and an acquire never returns an address
\* that a caller holds.
C2_OutstandingIffAbsent ==
    /\ [](\A i \in 0 .. list_size - 1 :
             SlotAddr(data, i) \in held <=>
                 SlotAddr(data, i) \notin Range(FreeStack))
    /\ [][(AcquireStep /\ Returned(calls'[Len(calls')]))
             => calls'[Len(calls')].ptr \notin held]_vars

C2_Witness ==
    /\ Len(calls) >= 4
    /\ IsRelease(calls[Len(calls) - 1])
    /\ IsAcquire(LastCall) /\ Returned(LastCall)
    /\ Cardinality(held) >= 2
    /\ index_top >= 1

\* ------------------------------------------------------------------- C3
\* C3: on a freshly constructed pool the i-th acquire (i = 0 .. list_size-1,
\* no release before it) returns data + i * sizeof(Type).
C3_ColdFillAscending ==
    \A k \in {Len(calls)} \ {0} :
        (k <= list_size /\ ColdPrefix(k)) =>
            /\ Returned(calls[k])
            /\ calls[k].ptr = SlotAddr(data, k - 1)

C3_Witness ==
    /\ list_size >= 3
    /\ Len(calls) = list_size
    /\ ColdPrefix(list_size)
    /\ Returned(LastCall)
    /\ LastCall.ptr = data + (list_size - 1) * SizeofType

\* ------------------------------------------------------------------- C4
\* C4: the free stack is LIFO: t successful releases followed directly by
\* t acquires give back the released addresses in reverse order; with
\* t = 1, an acquire right after markAsFree(p) returns p.
C4_Lifo ==
    \A t \in 1 .. Len(calls) \div 2 : \A m \in {Len(calls) - t} :
        (/\ \A j \in m - t + 1 .. m : IsRelease(calls[j]) /\ Returned(calls[j])
         /\ \A j \in m + 1 .. m + t : IsAcquire(calls[j]))
        => /\ Returned(calls[m + t])
           /\ calls[m + t].ptr = calls[m - t + 1].ptr

C4_Witness ==
    \E m \in 2 .. Len(calls) - 2 :
        /\ IsRelease(calls[m - 1]) /\ Returned(calls[m - 1])
        /\ IsRelease(calls[m]) /\ Returned(calls[m])
        /\ calls[m - 1].ptr # calls[m].ptr
        /\ IsAcquire(calls[m + 1]) /\ Returned(calls[m + 1])
        /\ IsAcquire(calls[m + 2]) /\ Returned(calls[m + 2])
        /\ calls[m + 2].ptr = calls[m - 1].ptr

\* ------------------------------------------------------------------- C5
\* C5: with index_top = 0, getFreePlace and constructOnFreePlace fail with
\* runtime_error, construct no object, and leave index_top and every entry
\* of free_segments as they were.
C5_ExhaustedLeavesPoolUntouched ==
    [][(index_top = 0 /\ AcquireStep)
         => /\ calls'[Len(calls')].outcome = "runtime_error"
            /\ index_top' = index_top
            /\ free_segments' = free_segments
            /\ live' = live
            /\ held' = held]_vars

C5_Witness ==
    /\ index_top = 0
    /\ \E k \in 1 .. Len(calls) :
          calls[k].op = "getFreePlace" /\ calls[k].outcome = "runtime_error"
    /\ \E k \in 1 .. Len(calls) :
          calls[k].op = "constructOnFreePlace" /\ calls[k].outcome = "runtime_error"

\* ------------------------------------------------------------------- C6
\* C6: with assertions enabled a double release is rejected, so no address
\* appears twice in free_segments[0 .. index_top-1].
C6_NoAddressTwiceFree ==
    \A i \in 1 .. index_top : \A j \in 1 .. index_top :
        i # j => FreeStack[i] # FreeStack[j]

\* ------------------------------------------------------------------- C7
\* C7: with assertions enabled markAsFree rejects every address that is not
\* one of the list_size slot addresses, so every entry of
\* free_segments[0 .. index_top-1] is a slot address.
C7_OnlySlotAddressesFree ==
    Range(FreeStack) \subseteq Slots(data, list_size)

\* ------------------------------------------------------------------- C8
\* C8: destructAndMarkAsFree(ptr) runs the destructor before it pushes ptr:
\* when the destructor runs, ptr is not in free_segments[0 .. index_top-1].
C8_DestructorBeforePush ==
    pc = "dtor" => cur_ptr \notin Range(FreeStack)

\* ------------------------------------------------------------------- C9
\* C9: p = constructOnFreePlace(args) directly followed by
\* destructAndMarkAsFree(p) returns, with index_top and the free stack as
\* they were before the construct; a getFreePlace right after returns p.
C9_ConstructDestructRoundTrip ==
    \A k \in 1 .. Len(calls) - 1 :
        (/\ calls[k].op = "constructOnFreePlace" /\ Returned(calls[k])
         /\ calls[k + 1].op = "destructAndMarkAsFree"
         /\ calls[k + 1].ptr = calls[k].ptr)
        => /\ Returned(calls[k + 1])
           /\ calls[k + 1].stk = StackAfter(k - 1)
           /\ (k + 2 <= Len(calls) /\ calls[k + 2].op = "getFreePlace")
                 => /\ Returned(calls[k + 2])
                    /\ calls[k + 2].ptr = calls[k].ptr

C9_Witness ==
    \E k \in 2 .. Len(calls) - 2 :
        /\ calls[k].op = "constructOnFreePlace" /\ Returned(calls[k])
        /\ calls[k + 1].op = "destructAndMarkAsFree" /\ Returned(calls[k + 1])
        /\ calls[k + 1].ptr = calls[k].ptr
        /\ calls[k + 2].op = "getFreePlace"
        /\ Len(StackAfter(k - 1)) >= 2
        /\ Len(StackAfter(k - 1)) < list_size

\* ------------------------------------------------------------------ C10
\* C10: from a pool with all list_size slots outstanding, releasing each
\* outstanding address once (markAsFree or destructAndMarkAsFree, in any
\* order) ends with index_top = list_size and every slot address in the
\* free stack exactly once.
AllReleasedAfter(i) ==
    /\ StackAfter(i) = <<>>
    /\ i + list_size <= Len(calls)
    /\ \A j \in i + 1 .. i + list_size : IsRelease(calls[j])

C10_ReleaseAllRestores ==
    \A i \in 1 .. Len(calls) :
        AllReleasedAfter(i) =>
            /\ Len(calls[i + list_size].stk) = list_size
            /\ Range(calls[i + list_size].stk) = Slots(data, list_size)
            /\ (i + list_size = Len(calls)) => index_top = list_size

C10_Witness ==
    /\ list_size >= 2
    /\ \E i \in 1 .. Len(calls) :
          /\ AllReleasedAfter(i)
          /\ i + list_size = Len(calls)
          /\ calls[i + 1].ptr < calls[i + 2].ptr
          /\ calls[i + 1].op # calls[i + 2].op

\* =================================================================
\* Construction, move construction and destruction.
\*
\* There is one arena (at address data, list_size slots) and one address
\* array (contents: free_segments).  Every instance's data and free_segments
\* members point at them; index_top, list_size and free_resources_on_destr
\* are per instance.  heap records what new[] and delete[] did to the two
\* buffers: "unallocated", "allocated", "freed", "freed_twice", or, for
\* buffers supplied by the caller, "caller" and "caller_freed".
\* =================================================================
IsLive(i) == inst[i].state = "live"

\* the instances that were move-constructed from instance i
MovedTo(i) == {d \in 1 .. MaxInst : inst[d].state # "none" /\ inst[d].from = i}

MovedFrom(i) == MovedTo(i) # {}

\* the identifier of the next instance to be constructed
NextId == Len(recv) + 1

CanConstruct == pc = "idle" /\ NextId <= MaxInst

BuffersUsable == heap.free_segments \in {"allocated", "caller"}

\* the instance that received the buffers last
LastReceiver == recv[Len(recv)]

\* FreeList(const size_t init_list_size)
\*   try : free_resources_on_destr(true), list_size(init_list_size),
\*         data(new char[list_size * sizeof(Type)]),
\*         free_segments(new char *[list_size])
\*   { freeAll(); }
\*   catch (std::bad_alloc &) { throw; }
\* Either new[] may throw std::bad_alloc; the handler rethrows and releases
\* nothing.
ConstructOwning ==
    /\ CanConstruct
    /\ heap.data = "unallocated"
    /\ \A i \in 1 .. MaxInst : ~IsLive(i)
    /\ \E outcome \in {"returned", "data_bad_alloc", "free_segments_bad_alloc"} :
          CASE outcome = "returned" ->
                 LET r == freeAll(free_segments, list_size, data)
                 IN  /\ heap' = [heap EXCEPT !.data = "allocated",
                                             !.free_segments = "allocated"]
                     /\ free_segments' = r.segs
                     /\ inst' = [inst EXCEPT ![NextId] =
                                    [state |-> "live",
                                     free_resources_on_destr |-> TRUE,
                                     list_size |-> list_size,
                                     index_top |-> r.top,
                                     data |-> data,
                                     from |-> 0]]
                     /\ recv' = Append(recv, NextId)
                     /\ held' = {}
                     /\ last' = [op |-> "FreeList(size_t)", inst |-> NextId,
                                 outcome |-> "returned",
                                 before |-> free_segments]
            [] outcome = "data_bad_alloc" ->
                 /\ last' = [op |-> "FreeList(size_t)", inst |-> NextId,
                             outcome |-> "bad_alloc", before |-> free_segments]
                 /\ UNCHANGED <<heap, free_segments, inst, recv, held>>
            [] outcome = "free_segments_bad_alloc" ->
                 /\ heap' = [heap EXCEPT !.data = "allocated"]
                 /\ last' = [op |-> "FreeList(size_t)", inst |-> NextId,
                             outcome |-> "bad_alloc", before |-> free_segments]
                 /\ UNCHANGED <<free_segments, inst, recv, held>>
    /\ UNCHANGED <<free_resources_on_destr, list_size, index_top, data,
                   live, pc, cur_ptr, calls, mtVars>>

\* FreeList(Type * const init_data, Type ** const init_free_segments,
\*          const size_t init_list_size)
\*   : free_resources_on_destr(false), data(init_data),
\*     free_segments(init_free_segments), list_size(init_list_size)
\*   { freeAll(); }
ConstructBorrowing ==
    /\ CanConstruct
    /\ heap.data = "caller"
    /\ \A i \in 1 .. MaxInst : ~IsLive(i)
    /\ LET r == freeAll(free_segments, list_size, data)
       IN  /\ free_segments' = r.segs
           /\ inst' = [inst EXCEPT ![NextId] =
                          [state |-> "live",
                           free_resources_on_destr |-> FALSE,
                           list_size |-> list_size,
                           index_top |-> r.top,
                           data |-> data,
                           from |-> 0]]
    /\ recv' = Append(recv, NextId)
    /\ held' = {}
    /\ last' = [op |-> "FreeList(Type*, Type**, size_t)", inst |-> NextId,
                outcome |-> "returned", before |-> free_segments]
    /\ UNCHANGED <<free_resources_on_destr, list_size, index_top, data,
                   live, pc, cur_ptr, calls, heap, mtVars>>

\* FreeList(FreeList &&rv)
\*   : free_resources_on_destr(rv.free_resources_on_destr),
\*     list_size(rv.list_size), index_top(rv.index_top), data(rv.data),
\*     free_segments(rv.free_segments)
\* the members of the new instance
moveConstructRefill(rv, s) ==
    [state |-> "live",
     free_resources_on_destr |-> rv.free_resources_on_destr,
     list_size |-> rv.list_size,
     index_top |-> rv.list_size,
     data |-> rv.data,
     from |-> s]

moveConstruct(rv, s) ==
    [state |-> "live",
     free_resources_on_destr |-> rv.free_resources_on_destr,
     list_size |-> rv.list_size,
     index_top |-> rv.index_top,
     data |-> rv.data,
     from |-> s]

\*   { rv.free_resources_on_destr = false; }
\* what the move constructor leaves in rv
movedFromKeepsFlag(rv) == rv

movedFrom(rv) == [rv EXCEPT !.free_resources_on_destr = FALSE]

MoveConstruct(s) ==
    /\ CanConstruct
    /\ IsLive(s)
    /\ inst' = [inst EXCEPT ![NextId] = moveConstruct(inst[s], s),
                            ![s] = movedFrom(inst[s])]
    /\ recv' = Append(recv, NextId)
    /\ last' = [op |-> "FreeList(FreeList&&)", inst |-> NextId,
                outcome |-> "returned"]
    /\ UNCHANGED <<free_resources_on_destr, list_size, index_top, data,
                   free_segments, held, live, pc, cur_ptr, calls, heap, mtVars>>

\* ~FreeList()
\*   if (free_resources_on_destr) { delete [] data; delete [] free_segments; }
destructorDeletesAlways(flag) == TRUE

destructorDeletes(flag) == flag

\* the effect of delete[] on a buffer
deleteArray(st) ==
    CASE st = "allocated" -> "freed"
      [] st = "freed" -> "freed_twice"
      [] st = "freed_twice" -> "freed_twice"
      [] st = "caller" -> "caller_freed"
      [] st = "caller_freed" -> "caller_freed"
      [] st = "unallocated" -> "unallocated"

Destroy(i) ==
    /\ pc = "idle"
    /\ IsLive(i)
    /\ inst' = [inst EXCEPT ![i] = [state |-> "destroyed", from |-> inst[i].from]]
    /\ IF destructorDeletes(inst[i].free_resources_on_destr)
       THEN heap' = [data |-> deleteArray(heap.data),
                     free_segments |-> deleteArray(heap.free_segments),
                     by |-> i]
       ELSE heap' = heap
    /\ UNCHANGED <<free_resources_on_destr, list_size, index_top, data,
                   free_segments, held, live, pc, cur_ptr, calls, recv, last,
                   mtVars>>

\* Type *getFreePlace(), called on instance i
GetFreePlaceOn(i) ==
    /\ pc = "idle"
    /\ IsLive(i)
    /\ BuffersUsable
    /\ LET r == getFreePlace(free_segments, inst[i].index_top)
       IN  /\ inst' = [inst EXCEPT ![i].index_top = r.top]
           /\ IF r.outcome = "returned"
              THEN held' = held \cup {r.ptr}
              ELSE held' = held
    /\ UNCHANGED <<free_resources_on_destr, list_size, index_top, data,
                   free_segments, live, pc, cur_ptr, calls, heap, recv, last,
                   mtVars>>

\* void markAsFree(Type * const ptr), called on instance i
MarkAsFreeOn(i, ptr) ==
    /\ pc = "idle"
    /\ IsLive(i)
    /\ BuffersUsable
    /\ IF markAsFreeAsserts(ptr, inst[i].index_top, inst[i].list_size,
                            inst[i].data)
       THEN LET r == markAsFreePush(free_segments, inst[i].index_top, ptr)
            IN  /\ free_segments' = r.segs
                /\ inst' = [inst EXCEPT ![i].index_top = r.top]
                /\ held' = held \ {ptr}
                /\ pc' = pc
       ELSE /\ pc' = "aborted"
            /\ UNCHANGED <<free_segments, inst, held>>
    /\ UNCHANGED <<free_resources_on_destr, list_size, index_top, data,
                   live, cur_ptr, calls, heap, recv, last, mtVars>>

\* getFreePlace or markAsFree on an instance whose address array was
\* deleted reads or writes freed memory: undefined behaviour, after which
\* nothing is known of the program.
UseAfterFree(i) ==
    /\ pc = "idle"
    /\ IsLive(i)
    /\ ~BuffersUsable
    /\ pc' = "undefined"
    /\ UNCHANGED <<free_resources_on_destr, list_size, index_top, data,
                   free_segments, held, live, cur_ptr, calls, inst, heap, recv,
                   last, mtVars>>

\* before any construction: the address array holds indeterminate values,
\* the buffers are either to be allocated by the owning constructor or are
\* the caller's
InitLife ==
    /\ MtUnused
    /\ free_resources_on_destr = FALSE
    /\ index_top = 0
    /\ live = {}
    /\ cur_ptr = 0
    /\ calls = <<>>
    /\ pc = "idle"
    /\ held = {}
    /\ list_size \in 1 .. MaxLifeSize
    /\ data = DataAddr
    /\ free_segments \in Indeterminate(list_size, data)
    /\ inst = [i \in 1 .. MaxInst |-> NoInst]
    /\ \E st \in {"unallocated", "caller"} :
          heap = [data |-> st, free_segments |-> st, by |-> 0]
    /\ recv = <<>>
    /\ last = [op |-> "none"]

\* any use of any live instance, moved-from ones included
NextLife ==
    \/ ConstructOwning
    \/ ConstructBorrowing
    \/ \E s \in 1 .. MaxInst : MoveConstruct(s)
    \/ \E i \in 1 .. MaxInst : Destroy(i)
    \/ \E i \in 1 .. MaxInst : GetFreePlaceOn(i)
    \/ \E i \in 1 .. MaxInst : \E ptr \in held : MarkAsFreeOn(i, ptr)
    \/ \E i \in 1 .. MaxInst : UseAfterFree(i)

SpecLife == InitLife /\ [][NextLife]_vars

\* callers that use and move only the instance that received the buffers
\* last, and release only addresses they hold
IsOwner(i) == recv # <<>> /\ i = LastReceiver /\ IsLive(i)

NextMove ==
    \/ ConstructOwning
    \/ ConstructBorrowing
    \/ \E s \in 1 .. MaxInst : IsOwner(s) /\ MoveConstruct(s)
    \/ \E i \in 1 .. MaxInst : Destroy(i)
    \/ \E i \in 1 .. MaxInst : IsOwner(i) /\ GetFreePlaceOn(i)
    \/ \E i \in 1 .. MaxInst : \E ptr \in held : IsOwner(i) /\ MarkAsFreeOn(i, ptr)

SpecMove == InitLife /\ [][NextMove]_vars

LifeTypeOK ==
    /\ pc \in {"idle", "aborted", "undefined"}
    /\ \A i \in 1 .. MaxInst :
          IsLive(i) => inst[i].index_top \in 0 .. list_size

\* this step constructed instance d
Constructed(d) == inst[d].state = "none" /\ inst'[d].state = "live"

\* ------------------------------------------------------------------ C11
\* C11: move-constructing pool2 from a pool1 with k free and N-k
\* outstanding slots gives pool2 the capacity, the ownership mode, the
\* index_top (k) and the free stack of pool1; the addresses obtained from
\* pool1 are accepted by markAsFree on pool2, and once all are released
\* pool2 has N free slots.
C11_MoveTransparent ==
    /\ [][\A d \in 1 .. MaxInst :
            (Constructed(d) /\ inst'[d].from # 0) =>
                LET rv == inst[inst'[d].from]
                IN  /\ inst'[d].list_size = rv.list_size
                    /\ inst'[d].free_resources_on_destr = rv.free_resources_on_destr
                    /\ inst'[d].index_top = rv.index_top
                    /\ inst'[d].index_top + Cardinality(held) = rv.list_size
                    /\ StackOf(free_segments', inst'[d].index_top)
                          = StackOf(free_segments, rv.index_top)]_vars
    /\ [](pc # "aborted")
    /\ [](\A o \in 1 .. MaxInst :
             IsOwner(o) =>
                /\ inst[o].index_top + Cardinality(held) = inst[o].list_size
                /\ Range(StackOf(free_segments, inst[o].index_top))
                      = Slots(data, list_size) \ held)

C11_Witness ==
    \E o \in 1 .. MaxInst :
        /\ IsOwner(o)
        /\ inst[o].from # 0
        /\ IsLive(inst[o].from)
        /\ list_size = 2
        /\ inst[inst[o].from].index_top = 1
        /\ inst[o].index_top = 2
        /\ held = {}

\* ------------------------------------------------------------------ C12
\* C12: over any sequence of move constructions (chains, and moves from a
\* moved-from pool) and destructions, the buffers of an owning pool are
\* deallocated exactly once, by the destruction of the instance that
\* received them last, and never while that instance is live.
C12_DeallocatedOnceByLastReceiver ==
    /\ [](heap.data # "freed_twice" /\ heap.free_segments # "freed_twice")
    /\ [][(heap.data = "allocated" /\ heap'.data # "allocated") =>
             /\ heap'.data = "freed"
             /\ heap'.free_segments = "freed"
             /\ heap'.by = LastReceiver
             /\ inst'[LastReceiver].state = "destroyed"]_vars

\* ------------------------------------------------------------------ C13
\* C13: destroying a borrowing pool, or a pool moved from it, never
\* deallocates the caller's arena or address array; a borrowing pool
\* constructed afterwards over the same buffers starts with
\* index_top = list_size and hands out slot 0 .. slot list_size-1 in that
\* order, whatever the address array held before.
C13_BorrowedBuffersKept ==
    /\ [][heap.data = "caller" => heap' = heap]_vars
    /\ [][\A d \in 1 .. MaxInst :
            (/\ Constructed(d)
             /\ inst'[d].from = 0
             /\ ~inst'[d].free_resources_on_destr) =>
                /\ inst'[d].index_top = list_size
                /\ \A k \in 0 .. list_size - 1 :
                      free_segments'[list_size - 1 - k] = SlotAddr(data, k)]_vars

C13_Witness ==
    /\ heap.data = "caller"
    /\ list_size = 2
    /\ last.op = "FreeList(Type*, Type**, size_t)"
    /\ last.inst >= 3
    /\ IsLive(last.inst)
    /\ last.before # free_segments
    /\ last.before \notin Indeterminate(list_size, data)
    /\ \E i \in 1 .. MaxInst : inst[i].state = "destroyed" /\ inst[i].from # 0

\* ------------------------------------------------------------------ C17
\* C17: after a move construction the moved-from pool is inert: while the
\* move target is live, no call on the moved-from instance hands out or
\* takes back a slot of the arena.
C17_MovedFromInert ==
    [][\A i \in 1 .. MaxInst :
          (/\ IsLive(i)
           /\ \E d \in MovedTo(i) : IsLive(d)
           /\ inst'[i].state = "live") =>
              /\ inst'[i].index_top = inst[i].index_top
              /\ (\A d \in 1 .. MaxInst : inst'[d] = inst[d]) => held' = held]_vars

\* ------------------------------------------------------------------ C20
\* C20: when either allocation of the owning constructor fails, the
\* construction fails with bad_alloc, no instance exists, and no memory the
\* failed construction obtained stays allocated.
C20_FailedConstructionLeavesNothing ==
    (last.op = "FreeList(size_t)" /\ last.outcome = "bad_alloc") =>
        /\ \A i \in 1 .. MaxInst : inst[i].state = "none"
        /\ heap.data # "allocated"
        /\ heap.free_segments # "allocated"

\* ------------------------------------------------------------------ C16
\* C16: with assertions enabled, under any sequence of calls,
\* 0 <= index_top <= list_size and index_top is the number of slots that
\* are not outstanding.
C16_IndexTopCountsFreeSlots ==
    /\ index_top \in 0 .. list_size
    /\ index_top = Cardinality(Slots(data, list_size) \ held)

\* =================================================================
\* A constructor of Type that throws.
\* =================================================================
\* return new (getFreePlace()) Type(args...);
\* When Type(args...) throws, the placement form of operator delete is
\* called, which does nothing: the pool is left as getFreePlace left it.
constructorThrewPushBack(segs, top, ptr) == markAsFreePush(segs, top, ptr)

constructorThrew(segs, top, ptr) == [segs |-> segs, top |-> top]

ConstructOnFreePlaceThrows ==
    /\ CanCall
    /\ LET r == getFreePlace(free_segments, index_top)
       IN  /\ r.outcome = "returned"
           /\ LET q == constructorThrew(free_segments, r.top, r.ptr)
              IN  /\ index_top' = q.top
                  /\ free_segments' = q.segs
                  /\ held' = held \cup {r.ptr}
                  /\ calls' = Append(calls,
                        [op |-> "constructOnFreePlace",
                         outcome |-> "constructor_failed",
                         ptr |-> r.ptr,
                         stk |-> StackOf(q.segs, q.top)])
    /\ UNCHANGED <<free_resources_on_destr, list_size, data, live, pc, cur_ptr,
                   lifeVars, mtVars>>

NextCtor ==
    \/ GetFreePlace
    \/ ConstructOnFreePlace
    \/ ConstructOnFreePlaceThrows
    \/ \E ptr \in held : MarkAsFree(ptr)
    \/ \E ptr \in held \cap live : DestructAndMarkAsFree(ptr)
    \/ DestructorOfType

SpecCtor == Init /\ [][NextCtor]_vars

\* ------------------------------------------------------------------ C19
\* C19: when Type's constructor throws inside constructOnFreePlace, the
\* exception reaches the caller and the slot stays acquired: index_top is
\* one less than before the call and the slot's address is not in the
\* free stack; markAsFree of that address then restores the free stack of
\* before the call.
ConstructorFailed(c) ==
    c.op = "constructOnFreePlace" /\ c.outcome = "constructor_failed"

C19_ConstructorFailureKeepsSlot ==
    \A k \in 1 .. Len(calls) :
        ConstructorFailed(calls[k]) =>
            /\ Len(calls[k].stk) = Len(StackAfter(k - 1)) - 1
            /\ calls[k].ptr \notin Range(calls[k].stk)
            /\ (k = Len(calls) /\ pc = "idle") =>
                   /\ index_top = Len(calls[k].stk)
                   /\ calls[k].ptr \in held
            /\ (/\ k + 1 <= Len(calls)
                /\ calls[k + 1].op = "markAsFree"
                /\ calls[k + 1].ptr = calls[k].ptr) =>
                   /\ Returned(calls[k + 1])
                   /\ calls[k + 1].stk = StackAfter(k - 1)

C19_Witness ==
    \E k \in 2 .. Len(calls) - 1 :
        /\ ConstructorFailed(calls[k])
        /\ calls[k + 1].op = "markAsFree"
        /\ calls[k + 1].ptr = calls[k].ptr
        /\ Len(calls[k].stk) >= 1
        /\ Len(calls[k].stk) + 1 < list_size

\* =================================================================
\* The FL_THREAD_SAFETY build: several threads call into one pool.
\* thr[t].pc is the position of thread t:
\*   "idle"   not in a call
\*   "lock"   at std::lock_guard <std::mutex> lg(fl_mutex), the first
\*            statement of getFreePlace, markAsFree, destructAndMarkAsFree
\*            (constructOnFreePlace is there through its getFreePlace())
\*   "check"  getFreePlace: at if (index_top == 0)
\*   "pop"    getFreePlace: at return free_segments[--index_top]
\*   "ctor"   constructOnFreePlace: getFreePlace has returned, Type(args...)
\*            is running
\*   "assert" markAsFree: at the asserts
\*   "push"   markAsFree: at free_segments[index_top++] = ptr
\*   "relock" destructAndMarkAsFree: owns fl_mutex and is at the
\*            lock_guard of the markAsFree it calls
\* =================================================================
IdleThread(h) == [pc |-> "idle", held |-> h]

AllHeld == UNION {thr[t].held : t \in Threads}

CanStep(t) == pc = "idle" /\ thr[t].pc # "idle"

CanStart(t) == pc = "idle" /\ thr[t].pc = "idle"

mtFrame == <<free_resources_on_destr, list_size, data, held, cur_ptr, calls,
             lifeVars>>

\* a thread calls getFreePlace()
CallGetFreePlace(t) ==
    /\ CanStart(t)
    /\ thr' = [thr EXCEPT ![t] = [pc |-> "lock", op |-> "getFreePlace",
                                  held |-> thr[t].held]]
    /\ UNCHANGED <<index_top, free_segments, live, pc, fl_mutex, mtFrame>>

\* a thread calls constructOnFreePlace(args...), which calls getFreePlace()
CallConstructOnFreePlace(t) ==
    /\ CanStart(t)
    /\ thr' = [thr EXCEPT ![t] = [pc |-> "lock", op |-> "constructOnFreePlace",
                                  held |-> thr[t].held]]
    /\ UNCHANGED <<index_top, free_segments, live, pc, fl_mutex, mtFrame>>

\* a thread calls markAsFree(ptr)
CallMarkAsFree(t, ptr) ==
    /\ CanStart(t)
    /\ thr' = [thr EXCEPT ![t] = [pc |-> "lock", op |-> "markAsFree",
                                  ptr |-> ptr, held |-> thr[t].held]]
    /\ UNCHANGED <<index_top, free_segments, live, pc, fl_mutex, mtFrame>>

\* a thread calls destructAndMarkAsFree(ptr)
CallDestructAndMarkAsFree(t, ptr) ==
    /\ CanStart(t)
    /\ thr' = [thr EXCEPT ![t] = [pc |-> "lock", op |-> "destructAndMarkAsFree",
                                  ptr |-> ptr, held |-> thr[t].held]]
    /\ UNCHANGED <<index_top, free_segments, live, pc, fl_mutex, mtFrame>>

\* std::mutex::lock returns when no thread owns the mutex
mutexLockNoWait(m) == TRUE

mutexLock(m) == m = NoThread

\* where the call goes on once the lock_guard is constructed
afterLock(op) ==
    CASE op = "getFreePlace" -> "check"
      [] op = "constructOnFreePlace" -> "check"
      [] op = "markAsFree" -> "assert"
      [] op = "destructAndMarkAsFree" -> "relock"

\* std::lock_guard <std::mutex> lg(fl_mutex);
LockGuard(t) ==
    /\ CanStep(t)
    /\ thr[t].pc = "lock"
    /\ mutexLock(fl_mutex)
    /\ fl_mutex' = t
    /\ thr' = [thr EXCEPT ![t].pc = afterLock(thr[t].op)]
    /\ UNCHANGED <<index_top, free_segments, live, pc, mtFrame>>

\* getFreePlace: if (index_top == 0) throw std::runtime_error(...);
\* the exception leaves getFreePlace (and constructOnFreePlace) and the
\* lock_guard unlocks
CheckFreePlace(t) ==
    /\ CanStep(t)
    /\ thr[t].pc = "check"
    /\ IF getFreePlace(free_segments, index_top).outcome = "runtime_error"
       THEN /\ thr' = [thr EXCEPT ![t] = IdleThread(thr[t].held)]
            /\ fl_mutex' = NoThread
       ELSE /\ thr' = [thr EXCEPT ![t] =
                          [pc |-> "pop", op |-> thr[t].op,
                           local |-> index_top, held |-> thr[t].held]]
            /\ fl_mutex' = fl_mutex
    /\ UNCHANGED <<index_top, free_segments, live, pc, mtFrame>>

\* getFreePlace: return free_segments[--index_top]; the lock_guard unlocks
PopFreePlace(t) ==
    /\ CanStep(t)
    /\ thr[t].pc = "pop"
    /\ LET r == getFreePlace(free_segments, thr[t].local)
       IN  /\ index_top' = r.top
           /\ thr' = [thr EXCEPT ![t] =
                         IF thr[t].op = "constructOnFreePlace"
                         THEN [pc |-> "ctor", op |-> thr[t].op, ptr |-> r.ptr,
                               held |-> thr[t].held \cup {r.ptr}]
                         ELSE IdleThread(thr[t].held \cup {r.ptr})]
    /\ fl_mutex' = NoThread
    /\ UNCHANGED <<free_segments, live, pc, mtFrame>>

\* constructOnFreePlace: new (ptr) Type(args...), after getFreePlace()
\* returned
ConstructorOfType(t) ==
    /\ CanStep(t)
    /\ thr[t].pc = "ctor"
    /\ live' = live \cup {thr[t].ptr}
    /\ thr' = [thr EXCEPT ![t] = IdleThread(thr[t].held)]
    /\ UNCHANGED <<index_top, free_segments, pc, fl_mutex, mtFrame>>

\* markAsFree: the three asserts
AssertMarkAsFree(t) ==
    /\ CanStep(t)
    /\ thr[t].pc = "assert"
    /\ IF markAsFreeAsserts(thr[t].ptr, index_top, list_size, data)
       THEN /\ thr' = [thr EXCEPT ![t] =
                          [pc |-> "push", op |-> thr[t].op, ptr |-> thr[t].ptr,
                           local |-> index_top, held |-> thr[t].held]]
            /\ pc' = pc
       ELSE /\ pc' = "aborted"
            /\ thr' = thr
    /\ UNCHANGED <<index_top, free_segments, live, fl_mutex, mtFrame>>

\* markAsFree: free_segments[index_top++] = ptr; the lock_guard unlocks
PushMarkAsFree(t) ==
    /\ CanStep(t)
    /\ thr[t].pc = "push"
    /\ LET r == markAsFreePush(free_segments, thr[t].local, thr[t].ptr)
       IN  /\ free_segments' = r.segs
           /\ index_top' = r.top
    /\ thr' = [thr EXCEPT ![t] = IdleThread(thr[t].held \ {thr[t].ptr})]
    /\ fl_mutex' = NoThread
    /\ UNCHANGED <<live, pc, mtFrame>>

\* destructAndMarkAsFree: markAsFree(ptr) constructs a second lock_guard on
\* fl_mutex, which the calling thread owns.  Locking a std::mutex one owns
\* is undefined: the thread blocks for ever (it stays at "relock"), or
\* lock() throws std::system_error (resource_deadlock_would_occur), which
\* leaves destructAndMarkAsFree through the outer lock_guard.
RelockThrows(t) ==
    /\ CanStep(t)
    /\ thr[t].pc = "relock"
    /\ fl_mutex = t
    /\ thr' = [thr EXCEPT ![t] = IdleThread(thr[t].held)]
    /\ fl_mutex' = NoThread
    /\ UNCHANGED <<index_top, free_segments, live, pc, mtFrame>>

\* each thread releases only what it holds: raw storage through markAsFree,
\* objects through destructAndMarkAsFree
NextMT ==
    \/ \E t \in Threads : CallGetFreePlace(t)
    \/ \E t \in Threads : CallConstructOnFreePlace(t)
    \/ \E t \in Threads : \E ptr \in thr[t].held \ live :
          CallMarkAsFree(t, ptr)
    \/ \E t \in Threads : \E ptr \in thr[t].held \cap live :
          CallDestructAndMarkAsFree(t, ptr)
    \/ \E t \in Threads : LockGuard(t)
    \/ \E t \in Threads : CheckFreePlace(t)
    \/ \E t \in Threads : PopFreePlace(t)
    \/ \E t \in Threads : ConstructorOfType(t)
    \/ \E t \in Threads : AssertMarkAsFree(t)
    \/ \E t \in Threads : PushMarkAsFree(t)
    \/ \E t \in Threads : RelockThrows(t)

\* one pool built by FreeList(size_t), shared by the threads
InitMT ==
    /\ LifeUnused
    /\ MtUnused
    /\ free_resources_on_destr = TRUE
    /\ list_size \in 1 .. MaxMtSize
    /\ data = DataAddr
    /\ \E segs0 \in Indeterminate(list_size, data) :
          LET r == freeAll(segs0, list_size, data)
          IN  /\ free_segments = r.segs
              /\ index_top = r.top
    /\ held = {}
    /\ live = {}
    /\ pc = "idle"
    /\ cur_ptr = 0
    /\ calls = <<>>

SpecMT == InitMT /\ [][NextMT]_vars

MtTypeOK ==
    /\ fl_mutex \in Threads \cup {NoThread}
    /\ index_top \in 0 .. list_size
    /\ pc = "idle"

\* a thread is past the lock_guard of the call it is in
InsideCall(t) == thr[t].pc \notin {"idle", "lock"}

\* C14: every call holds fl_mutex for its full duration, the in-place
\* construction of Type included: a thread that is inside getFreePlace,
\* markAsFree, constructOnFreePlace or destructAndMarkAsFree, past its
\* lock_guard, owns fl_mutex, so no other thread's pool operation runs
\* between the slot pop and the end of Type's constructor.
C14_MutexHeldForWholeCall ==
    \A t \in Threads : InsideCall(t) => fl_mutex = t

\* C15: blocking is ordinary lock contention only: no thread ever waits at
\* a lock_guard on fl_mutex while that thread itself owns fl_mutex.
C15_NoWaitOnOwnMutex ==
    \A t \in Threads : thr[t].pc \in {"lock", "relock"} => fl_mutex # t

\* C18: under every interleaving of the threads' calls, each thread
\* releasing only addresses it holds, no address is held by two threads, no
\* push or pop is lost (the free stack holds exactly the slots nobody
\* holds, each once), and index_top plus the number of outstanding slots is
\* list_size.
C18_SerializedSlotTraffic ==
    /\ \A t1, t2 \in Threads :
          t1 # t2 => thr[t1].held \cap thr[t2].held = {}
    /\ Range(FreeStack) = Slots(data, list_size) \ AllHeld
    /\ Cardinality(Range(FreeStack)) = index_top
    /\ index_top + Cardinality(AllHeld) = list_size

\* two threads each hold an address; one is inside markAsFree giving its
\* address back while the other waits for fl_mutex
C18_Witness ==
    \E t1, t2 \in Threads :
        /\ t1 # t2
        /\ thr[t1].held # {}
        /\ thr[t2].held # {}
        /\ thr[t1].pc = "push"
        /\ fl_mutex = t1
        /\ thr[t2].pc = "lock"
====
